---- MODULE Spec2Model ----
(***************************************************************************)
(* Model of the persistence layer of cli-project-jira (src/db.rs,         *)
(* src/models.rs): ProjectsDatabase over a Database backend that holds    *)
(* one DBState snapshot.  Every ProjectsDatabase method reads the whole   *)
(* snapshot, edits a private copy and writes the copy back.               *)
(***************************************************************************)
EXTENDS Integers, Sequences, FiniteSets, TLC

VARIABLES
    db,     \* the snapshot the backend holds (MockDb.last_written_state)
    pre,    \* history: the snapshot the backend held when the last call began
    ret,    \* history: the last call, its arguments and its Result
    issued, \* history: the ids returned by the successful creates, in call order
    file,   \* the file at JSONFileDatabase.file_path
    file0,  \* history: the file when the last call began
    proc,   \* "running", or "panicked" once a call has unwound the thread
    calls,  \* history: the backend methods the last call invoked, in order
    failed, \* history: a write_db has failed since the last one that succeeded
    inst    \* the call in progress in each ProjectsDatabase sharing the file

\* the variables of the file backend; a store over MockDb leaves them alone
fvars == <<file, file0, proc, calls, failed, inst>>

vars == <<db, pre, ret, issued, file, file0, proc, calls, failed, inst>>

(***************************** bounds **************************************)

\* Creates are offered only while last_item_id < MaxId.
MaxId == 3

(***************************** data model **********************************)

\* models.rs: enum Status
Status == {"Open", "InProgress", "Resolved", "Closed"}

\* Texts a caller supplies for name and description.
Names == {"n1"}
Descriptions == {"d1"}

\* Identifiers a caller may pass: every id the counter can have issued.
Ids == 1..MaxId

\* The stories vectors of the Epic values a caller builds: Epic::new gives
\* vec![] (models.rs:49); a struct literal gives any vector (db.rs:457 builds
\* one with vec![2]).
CallerStories == {<<>>, <<2>>}

\* models.rs: struct Epic
Epic == [name : Names, description : Descriptions, status : Status,
         stories : CallerStories]

\* models.rs: struct Story
Story == [name : Names, description : Descriptions, status : Status]

\* MockDb::new: the empty store
EmptyState == [last_item_id |-> 0, epics |-> <<>>, stories |-> <<>>]

\* no file at the path
NoFile == [kind |-> "absent"]

\* the ProjectsDatabase instances opened on one file_path
Instances == {1, 2}

\* an instance with no call in progress
Idle == [pc |-> "idle"]

NoCalls == [p \in Instances |-> Idle]

(***************************** HashMap and Vec *****************************)

\* HashMap::insert: the value under k is replaced when k is present
Insert(m, k, v) == [x \in (DOMAIN m) \cup {k} |-> IF x = k THEN v ELSE m[x]]

\* HashMap::remove: no effect when k is absent
Remove(m, k) == [x \in (DOMAIN m) \ {k} |-> m[x]]

\* Iterator::position: index of the first element equal to x, 0 for None
Position(s, x) ==
    IF \E i \in 1..Len(s) : s[i] = x
    THEN CHOOSE i \in 1..Len(s) : s[i] = x /\ \A j \in 1..(i - 1) : s[j] # x
    ELSE 0

\* Vec::remove(idx): the later elements shift left
VecRemove(s, idx) == SubSeq(s, 1, idx - 1) \o SubSeq(s, idx + 1, Len(s))

\* the loop of delete_epic: stories.remove(id) for each id of the vector, in order
RECURSIVE RemoveEach(_, _)
RemoveEach(m, ids) ==
    IF ids = <<>> THEN m ELSE RemoveEach(Remove(m, Head(ids)), Tail(ids))

(***************************** backend *************************************)

\* MockDb::read_db: a clone of the held snapshot
read_db(backend) == backend

\* MockDb::write_db: the held snapshot is replaced by a clone of the argument
write_db(backend, db_state) == db_state

(***************************** u32 ******************************************)
(* TLC's integers are 32 bits wide and signed.  A u32 is held as the      *)
(* integer with the same 32 bits: 0 .. 2^31-1 as themselves, 2^31 ..      *)
(* 2^32-1 as the negative numbers -2^31 .. -1 (u32::MAX is -1).           *)

\* 2^16: a u32 is split into two 16-bit halves for its decimal form
Half == 65536

\* i32::MAX, the largest integer TLC holds
I32Max == 2147483647

\* u32::MAX
U32Max == -1

\* a + 1 in u32 without overflow checks (release profile): wraps to 0
u32_wrapping_inc(a) == IF a = I32Max THEN (0 - I32Max) - 1 ELSE a + 1

\* a + 1 overflows u32 (the debug profile panics there)
u32_inc_overflows(a) == a = U32Max

\* a < b as u32
u32_lt(a, b) == IF (a >= 0) = (b >= 0) THEN a < b ELSE a >= 0

\* the halves of a u32
u32_hi(a) == IF a >= 0 THEN a \div Half ELSE Half + (a \div Half)
u32_lo(a) == a % Half

\* the u32 with the given halves
u32_from(hi, lo) ==
    IF hi < Half \div 2 THEN hi * Half + lo ELSE (hi - Half) * Half + lo

(***************************** JSON ****************************************)
(* serde_json::to_string and from_str for DBState.  A JSON text is        *)
(* modelled by its structure: numbers and object keys by their decimal    *)
(* digits, strings by their content, objects by their fields; white space,*)
(* field order and string escapes are not represented.                    *)

\* itoa: the decimal digits of the u32 with halves hi, lo, most significant
\* first (long division by 10)
RECURSIVE Decimal(_, _)
Decimal(hi, lo) ==
    LET t == (hi % 10) * Half + lo
        q_hi == hi \div 10
        q_lo == t \div 10
    IN IF q_hi = 0 /\ q_lo = 0
       THEN <<t % 10>>
       ELSE Append(Decimal(q_hi, q_lo), t % 10)

\* the decimal form of a u32
u32_to_string(a) == Decimal(u32_hi(a), u32_lo(a))

\* the halves of the number the digits denote, read left to right from the
\* halves acc; hi >= Half when the number does not fit a u32
RECURSIVE Accumulate(_, _)
Accumulate(acc, digits) ==
    IF digits = <<>> \/ acc.hi >= Half
    THEN acc
    ELSE LET lo10 == acc.lo * 10 + Head(digits)
         IN Accumulate([hi |-> acc.hi * 10 + lo10 \div Half, lo |-> lo10 % Half],
                       Tail(digits))

\* faulty variant: the number parsed as an i32, which ids above i32::MAX
\* do not fit
i32_from_string(digits) ==
    LET acc == Accumulate([hi |-> 0, lo |-> 0], digits)
    IN IF digits = <<>> \/ acc.hi >= Half \div 2
       THEN [ok |-> FALSE, val |-> 0]
       ELSE [ok |-> TRUE, val |-> u32_from(acc.hi, acc.lo)]

\* str::parse::<u32> / serde_json's number parser for a u32 field
u32_from_string(digits) ==
    LET acc == Accumulate([hi |-> 0, lo |-> 0], digits)
    IN IF digits = <<>> \/ acc.hi >= Half
       THEN [ok |-> FALSE, val |-> 0]
       ELSE [ok |-> TRUE, val |-> u32_from(acc.hi, acc.lo)]

JNum(a) == [t |-> "num", v |-> u32_to_string(a)]
JStr(text) == [t |-> "str", v |-> text]
JArr(items) == [t |-> "arr", v |-> items]
JObj(fields) == [t |-> "obj", v |-> fields]

\* #[derive(Serialize)] for Status: the bare variant name
Status_to_json(status) == JStr(status)

\* #[derive(Serialize)] for Epic
Epic_to_json(epic) ==
    JObj([name |-> JStr(epic.name),
          description |-> JStr(epic.description),
          status |-> Status_to_json(epic.status),
          stories |-> JArr([i \in 1..Len(epic.stories) |-> JNum(epic.stories[i])])])

\* #[derive(Serialize)] for Story
Story_to_json(story) ==
    JObj([name |-> JStr(story.name),
          description |-> JStr(story.description),
          status |-> Status_to_json(story.status)])

\* the key of the map m whose decimal form is key
KeyOf(m, key) == CHOOSE k \in DOMAIN m : u32_to_string(k) = key

\* HashMap<u32, Epic> as a JSON object: the keys are the ids in decimal
Epics_to_json(m) ==
    JObj([key \in {u32_to_string(k) : k \in DOMAIN m} |->
            Epic_to_json(m[KeyOf(m, key)])])

\* HashMap<u32, Story> as a JSON object
Stories_to_json(m) ==
    JObj([key \in {u32_to_string(k) : k \in DOMAIN m} |->
            Story_to_json(m[KeyOf(m, key)])])

\* serde_json::to_string(db_state)
to_string(db_state) ==
    JObj([last_item_id |-> JNum(db_state.last_item_id),
          epics |-> Epics_to_json(db_state.epics),
          stories |-> Stories_to_json(db_state.stories)])

\* the JSON value is a number that fits a u32
IsU32(j) == j.t = "num" /\ u32_from_string(j.v).ok

\* the JSON value is the name of a Status variant
IsStatus(j) == j.t = "str" /\ j.v \in Status

\* the JSON value decodes into an Epic
IsEpic(j) ==
    /\ j.t = "obj"
    /\ {"name", "description", "status", "stories"} \subseteq DOMAIN j.v
    /\ j.v.name.t = "str"
    /\ j.v.description.t = "str"
    /\ IsStatus(j.v.status)
    /\ j.v.stories.t = "arr"
    /\ \A i \in 1..Len(j.v.stories.v) : IsU32(j.v.stories.v[i])

\* the JSON value decodes into a Story
IsStory(j) ==
    /\ j.t = "obj"
    /\ {"name", "description", "status"} \subseteq DOMAIN j.v
    /\ j.v.name.t = "str"
    /\ j.v.description.t = "str"
    /\ IsStatus(j.v.status)

\* the JSON value decodes into a DBState
IsDBState(j) ==
    /\ j.t = "obj"
    /\ {"last_item_id", "epics", "stories"} \subseteq DOMAIN j.v
    /\ IsU32(j.v.last_item_id)
    /\ j.v.epics.t = "obj"
    /\ \A key \in DOMAIN j.v.epics.v :
         u32_from_string(key).ok /\ IsEpic(j.v.epics.v[key])
    /\ j.v.stories.t = "obj"
    /\ \A key \in DOMAIN j.v.stories.v :
         u32_from_string(key).ok /\ IsStory(j.v.stories.v[key])

\* #[derive(Deserialize)] for Epic
Epic_from_json(j) ==
    [name |-> j.v.name.v,
     description |-> j.v.description.v,
     status |-> j.v.status.v,
     stories |-> [i \in 1..Len(j.v.stories.v) |->
                    u32_from_string(j.v.stories.v[i].v).val]]

\* #[derive(Deserialize)] for Story
Story_from_json(j) ==
    [name |-> j.v.name.v,
     description |-> j.v.description.v,
     status |-> j.v.status.v]

\* the key of the JSON object fields that denotes the id k
FieldOf(fields, k) == CHOOSE key \in DOMAIN fields : u32_from_string(key).val = k

\* serde_json::from_str::<DBState>(text): Err when the value is no DBState
from_str(j) ==
    IF ~IsDBState(j)
    THEN [ok |-> FALSE, val |-> EmptyState]
    ELSE [ok |-> TRUE,
          val |->
            [last_item_id |-> u32_from_string(j.v.last_item_id.v).val,
             epics |->
               [k \in {u32_from_string(key).val : key \in DOMAIN j.v.epics.v} |->
                  Epic_from_json(j.v.epics.v[FieldOf(j.v.epics.v, k)])],
             stories |->
               [k \in {u32_from_string(key).val : key \in DOMAIN j.v.stories.v} |->
                  Story_from_json(j.v.stories.v[FieldOf(j.v.stories.v, k)])]]]

(***************************** JSONFileDatabase ****************************)

\* a file whose text is the JSON value j
JsonFile(j) == [kind |-> "json", json |-> j]

\* a file whose text is no JSON (db.rs:420), or the cut-off text a failed
\* write leaves behind
BrokenFile == [kind |-> "broken"]

\* what fs::write can do: "ok"; "not opened" (the file cannot be created or
\* truncated: it is left as it was); "cut off" (the file was truncated and
\* the write of the data failed part way)
WriteOutcomes == {"ok", "not opened", "cut off"}

\* JSONFileDatabase::read_db: File::open and read_to_string fail on a missing
\* file, from_str fails on a text that is no DBState
JSONFileDatabase_read_db(f) ==
    IF f.kind = "absent" THEN [ok |-> FALSE, err |-> "io", val |-> EmptyState]
    ELSE IF f.kind = "broken"
    THEN [ok |-> FALSE, err |-> "format", val |-> EmptyState]
    ELSE LET parsed == from_str(f.json)
         IN [ok |-> parsed.ok,
             err |-> IF parsed.ok THEN "none" ELSE "format",
             val |-> parsed.val]

\* JSONFileDatabase::write_db: fs::write(..).expect(..) panics when the write
\* fails
JSONFileDatabase_write_db(f, db_state, outcome) ==
    LET data == to_string(db_state)
    IN IF outcome = "ok" THEN [panicked |-> FALSE, file |-> JsonFile(data)]
       ELSE IF outcome = "not opened" THEN [panicked |-> TRUE, file |-> f]
       ELSE [panicked |-> TRUE, file |-> BrokenFile]

(***************************** results *************************************)

\* Ok(val) after write_db stored `written`
Ok(val, written) == [ok |-> TRUE, val |-> val, db |-> written]

\* Err(..) returned by `?` before write_db is reached: the backend keeps `kept`
Err(kept) == [ok |-> FALSE, val |-> 0, db |-> kept]

(***************************** faulty variants *****************************)
(* Variants of the methods below, each with one plausible fault.  A       *)
(* property that is said to rest on a method must fail when the method is *)
(* replaced by its variant.                                               *)

\* delete_epic that hands the freed ids back: the counter falls to the
\* highest key that is left
delete_epic_reclaiming(backend, epic_id) ==
    IF epic_id \notin DOMAIN backend.epics
    THEN Err(backend)
    ELSE LET stories1 == RemoveEach(backend.stories, backend.epics[epic_id].stories)
             epics1 == Remove(backend.epics, epic_id)
             keys == (DOMAIN epics1) \cup (DOMAIN stories1)
             top == IF keys = {} THEN 0
                    ELSE CHOOSE k \in keys : \A o \in keys : o <= k
         IN Ok(0, [last_item_id |-> top, epics |-> epics1, stories |-> stories1])

\* delete_epic that removes the epic and leaves its stories in the map
delete_epic_no_cascade(backend, epic_id) ==
    IF epic_id \notin DOMAIN backend.epics
    THEN Err(backend)
    ELSE Ok(0, [backend EXCEPT !.epics = Remove(@, epic_id)])

\* delete_story that also decrements the counter
delete_story_decrementing(backend, epic_id, story_id) ==
    IF epic_id \notin DOMAIN backend.epics
    THEN Err(backend)
    ELSE LET story_idx == Position(backend.epics[epic_id].stories, story_id)
         IN IF story_idx = 0
            THEN Err(backend)
            ELSE Ok(0, [backend EXCEPT
                          !.epics[epic_id].stories = VecRemove(@, story_idx),
                          !.stories = Remove(@, story_id),
                          !.last_item_id = @ - 1])

\* delete_story that looks the story up in the story map, not in the epic's
\* vector
delete_story_any_owner(backend, epic_id, story_id) ==
    IF epic_id \notin DOMAIN backend.epics
    THEN Err(backend)
    ELSE IF story_id \notin DOMAIN backend.stories
         THEN Err(backend)
         ELSE LET story_idx == Position(backend.epics[epic_id].stories, story_id)
              IN Ok(0, [backend EXCEPT
                          !.epics[epic_id].stories =
                              IF story_idx = 0 THEN @ ELSE VecRemove(@, story_idx),
                          !.stories = Remove(@, story_id)])

\* create_story that numbers the stories with a counter of their own
create_story_own_counter(backend, story, epic_id) ==
    LET current_id == Cardinality(DOMAIN backend.stories) + 1
    IN IF epic_id \notin DOMAIN backend.epics
       THEN Err(backend)
       ELSE Ok(current_id,
               [backend EXCEPT
                  !.last_item_id = IF current_id > @ THEN current_id ELSE @,
                  !.stories = Insert(@, current_id, story),
                  !.epics[epic_id].stories = Append(@, current_id)])

\* create_story that writes the copy before it looks the epic up
create_story_writing_first(backend, story, epic_id) ==
    LET current_id == backend.last_item_id + 1
        state2 == [backend EXCEPT !.last_item_id = current_id,
                                  !.stories = Insert(@, current_id, story)]
    IN IF epic_id \notin DOMAIN state2.epics
       THEN Err(state2)
       ELSE Ok(current_id,
               [state2 EXCEPT !.epics[epic_id].stories = Append(@, current_id)])

\* create_story that puts the new id at the front of the epic's vector
create_story_prepending(backend, story, epic_id) ==
    LET current_id == backend.last_item_id + 1
        state2 == [backend EXCEPT !.last_item_id = current_id,
                                  !.stories = Insert(@, current_id, story)]
    IN IF epic_id \notin DOMAIN state2.epics
       THEN Err(backend)
       ELSE Ok(current_id,
               [state2 EXCEPT !.epics[epic_id].stories = <<current_id>> \o @])

\* update_epic_status that also sets the status of the epic's stories
update_epic_status_cascading(backend, epic_id, status) ==
    IF epic_id \notin DOMAIN backend.epics
    THEN Err(backend)
    ELSE LET listed == {backend.epics[epic_id].stories[i] :
                           i \in 1..Len(backend.epics[epic_id].stories)}
         IN Ok(0, [backend EXCEPT
                     !.epics[epic_id].status = status,
                     !.stories = [t \in DOMAIN @ |->
                                    IF t \in listed
                                    THEN [@[t] EXCEPT !.status = status]
                                    ELSE @[t]]])

\* read_db that moves the snapshot out of the cell (RefCell::take) and leaves
\* the default behind
after_read_db_taking(backend) == EmptyState

(***************************** ProjectsDatabase ****************************)

\* db.rs: ProjectsDatabase::read_db
ProjectsDatabase_read_db(backend) == read_db(backend)

\* db.rs: ProjectsDatabase::create_epic.  The epic is inserted as supplied.
create_epic(backend, epic) ==
    LET state0 == ProjectsDatabase_read_db(backend)
        current_id == u32_wrapping_inc(state0.last_item_id)
        state1 == [state0 EXCEPT !.last_item_id = current_id]
        state2 == [state1 EXCEPT !.epics = Insert(@, current_id, epic)]
    IN Ok(current_id, write_db(backend, state2))

\* db.rs: ProjectsDatabase::create_story.  The counter is advanced and the
\* story inserted in the private copy before the epic is looked up; the copy
\* is dropped when the lookup fails.
create_story(backend, story, epic_id) ==
    LET state0 == ProjectsDatabase_read_db(backend)
        current_id == u32_wrapping_inc(state0.last_item_id)
        state1 == [state0 EXCEPT !.last_item_id = current_id]
        state2 == [state1 EXCEPT !.stories = Insert(@, current_id, story)]
    IN IF epic_id \notin DOMAIN state2.epics
       THEN Err(backend)
       ELSE LET state3 == [state2 EXCEPT !.epics[epic_id].stories =
                                             Append(@, current_id)]
            IN Ok(current_id, write_db(backend, state3))

\* db.rs: ProjectsDatabase::delete_epic
delete_epic(backend, epic_id) ==
    LET state0 == ProjectsDatabase_read_db(backend)
    IN IF epic_id \notin DOMAIN state0.epics
       THEN Err(backend)
       ELSE LET state1 == [state0 EXCEPT !.stories =
                               RemoveEach(@, state0.epics[epic_id].stories)]
                state2 == [state1 EXCEPT !.epics = Remove(@, epic_id)]
            IN Ok(0, write_db(backend, state2))

\* db.rs: ProjectsDatabase::delete_story
delete_story(backend, epic_id, story_id) ==
    LET state0 == ProjectsDatabase_read_db(backend)
    IN IF epic_id \notin DOMAIN state0.epics
       THEN Err(backend)
       ELSE LET story_idx == Position(state0.epics[epic_id].stories, story_id)
            IN IF story_idx = 0
               THEN Err(backend)
               ELSE LET state1 == [state0 EXCEPT !.epics[epic_id].stories =
                                       VecRemove(@, story_idx)]
                        state2 == [state1 EXCEPT !.stories = Remove(@, story_id)]
                    IN Ok(0, write_db(backend, state2))

\* db.rs: ProjectsDatabase::update_epic_status
update_epic_status(backend, epic_id, status) ==
    LET state0 == ProjectsDatabase_read_db(backend)
    IN IF epic_id \notin DOMAIN state0.epics
       THEN Err(backend)
       ELSE Ok(0, write_db(backend,
                           [state0 EXCEPT !.epics[epic_id].status = status]))

\* db.rs: ProjectsDatabase::update_story_status
update_story_status(backend, story_id, status) ==
    LET state0 == ProjectsDatabase_read_db(backend)
    IN IF story_id \notin DOMAIN state0.stories
       THEN Err(backend)
       ELSE Ok(0, write_db(backend,
                           [state0 EXCEPT !.stories[story_id].status = status]))

(***************************** state machine *******************************)

\* the record of a call: its name, its arguments and its Result
Call(op, arg, r) == [op |-> op, arg |-> arg, ok |-> r.ok, val |-> r.val]

\* ProjectsDatabase { database: Box::new(MockDb::new()) }
Init ==
    /\ db = EmptyState
    /\ pre = EmptyState
    /\ ret = [op |-> "new", arg |-> <<>>, ok |-> TRUE, val |-> 0]
    /\ issued = <<>>
    /\ file = NoFile
    /\ file0 = NoFile
    /\ proc = "running"
    /\ calls = <<>>
    /\ failed = FALSE
    /\ inst = NoCalls

CreateEpic ==
    /\ db.last_item_id < MaxId
    /\ \E epic \in Epic :
         LET r == create_epic(db, epic)
         IN /\ db' = r.db
            /\ pre' = db
            /\ ret' = Call("create_epic", [epic |-> epic], r)
            /\ issued' = Append(issued, r.val)
            /\ UNCHANGED fvars

CreateStory ==
    \E story \in Story, epic_id \in Ids :
      /\ db.last_item_id < MaxId \/ epic_id \notin DOMAIN db.epics
      /\ LET r == create_story(db, story, epic_id)
         IN /\ db' = r.db
            /\ pre' = db
            /\ ret' = Call("create_story",
                           [story |-> story, epic_id |-> epic_id], r)
            /\ issued' = IF r.ok THEN Append(issued, r.val) ELSE issued
            /\ UNCHANGED fvars

DeleteEpic ==
    \E epic_id \in Ids :
      LET r == delete_epic(db, epic_id)
      IN /\ db' = r.db
         /\ pre' = db
         /\ ret' = Call("delete_epic", [epic_id |-> epic_id], r)
         /\ UNCHANGED issued
         /\ UNCHANGED fvars

DeleteStory ==
    \E epic_id \in Ids, story_id \in Ids :
      LET r == delete_story(db, epic_id, story_id)
      IN /\ db' = r.db
         /\ pre' = db
         /\ ret' = Call("delete_story",
                        [epic_id |-> epic_id, story_id |-> story_id], r)
         /\ UNCHANGED issued
         /\ UNCHANGED fvars

UpdateEpicStatus ==
    \E epic_id \in Ids, status \in Status :
      LET r == update_epic_status(db, epic_id, status)
      IN /\ db' = r.db
         /\ pre' = db
         /\ ret' = Call("update_epic_status",
                        [epic_id |-> epic_id, status |-> status], r)
         /\ UNCHANGED issued
         /\ UNCHANGED fvars

UpdateStoryStatus ==
    \E story_id \in Ids, status \in Status :
      LET r == update_story_status(db, story_id, status)
      IN /\ db' = r.db
         /\ pre' = db
         /\ ret' = Call("update_story_status",
                        [story_id |-> story_id, status |-> status], r)
         /\ UNCHANGED issued
         /\ UNCHANGED fvars

Next ==
    \/ CreateEpic
    \/ CreateStory
    \/ DeleteEpic
    \/ DeleteStory
    \/ UpdateEpicStatus
    \/ UpdateStoryStatus

Spec == Init /\ [][Next]_vars

(***************************** reading *************************************)

\* MockDb::read_db borrows the cell and clones its snapshot: the cell keeps it
after_read_db(backend) == backend

\* a call of ProjectsDatabase::read_db
ReadState ==
    /\ db' = after_read_db(db)
    /\ pre' = db
    /\ ret' = [op |-> "read_db", arg |-> <<>>, ok |-> TRUE,
               val |-> ProjectsDatabase_read_db(db)]
    /\ UNCHANGED issued
    /\ UNCHANGED fvars

NextRead ==
    \/ Next
    \/ ReadState

\* the store over MockDb, with its callers also reading the snapshot
SpecRead == Init /\ [][NextRead]_vars

(***************************** file store **********************************)
(* ProjectsDatabase over JSONFileDatabase (ProjectsDatabase::new,         *)
(* db.rs:14-20).  Each call reads the file, runs the method on the        *)
(* decoded snapshot and hands the edited copy to write_db.                *)

\* Creates on the file store are offered only while last_item_id < MaxFileId.
MaxFileId == 2

FileIds == 1..MaxFileId

\* the files a store can be opened on: none, text that is no JSON, JSON that
\* is no DBState, and the snapshot of an empty database
InitFiles ==
    {NoFile,
     BrokenFile,
     JsonFile(JObj([last_item_id |-> JNum(0)])),
     JsonFile(to_string(EmptyState))}

\* the method named op applied to a store whose backend returns state; the
\* db field of the result is the State the method hands to write_db
Dispatch(op, arg, state) ==
    CASE op = "create_epic" -> create_epic(state, arg.epic)
      [] op = "create_story" -> create_story(state, arg.story, arg.epic_id)
      [] op = "delete_epic" -> delete_epic(state, arg.epic_id)
      [] op = "delete_story" -> delete_story(state, arg.epic_id, arg.story_id)
      [] op = "update_epic_status" ->
           update_epic_status(state, arg.epic_id, arg.status)
      [] op = "update_story_status" ->
           update_story_status(state, arg.story_id, arg.status)

\* what a call leaves behind: its Result (ok, val, err), the file, the
\* backend methods it invoked, the outcome of its write, whether it unwound
\* the thread, and the State it handed to write_db
Outcome(ok, val, err, f, invoked, write, panicked, written) ==
    [ok |-> ok, val |-> val, err |-> err, file |-> f, calls |-> invoked,
     write |-> write, panicked |-> panicked, written |-> written]

\* faulty variant: the snapshot is written back before the method's lookup
\* is consulted, so that a NotFound call writes too
store_call_writing_first(f, rd, op, arg, outcome) ==
    LET r == Dispatch(op, arg, rd.val)
        w == JSONFileDatabase_write_db(f, r.db, outcome)
    IN IF ~rd.ok
       THEN Outcome(FALSE, 0, rd.err, f, <<"read_db">>, "none", FALSE, rd.val)
       ELSE Outcome(r.ok /\ ~w.panicked, r.val,
                    IF w.panicked THEN "panic"
                    ELSE IF r.ok THEN "none" ELSE "not found",
                    w.file, <<"read_db", "write_db">>, outcome, w.panicked, r.db)

\* faulty variant: a read that fails is taken for an empty database
\* (unwrap_or_default)
store_call_defaulting(f, rd, op, arg, outcome) ==
    LET r == Dispatch(op, arg, rd.val)
        w == JSONFileDatabase_write_db(f, r.db, outcome)
    IN IF ~r.ok
       THEN Outcome(FALSE, 0, "not found", f, <<"read_db">>, "none", FALSE, rd.val)
       ELSE Outcome(~w.panicked, r.val, IF w.panicked THEN "panic" ELSE "none",
                    w.file, <<"read_db", "write_db">>, outcome, w.panicked, r.db)

\* faulty variant: the call holds a lock on the file from its read to its
\* write, so that it edits what the file holds when it writes
store_call_locked(f, rd, op, arg, outcome) ==
    LET now == JSONFileDatabase_read_db(f)
        r == Dispatch(op, arg, now.val)
        w == JSONFileDatabase_write_db(f, r.db, outcome)
    IN IF ~now.ok
       THEN Outcome(FALSE, 0, now.err, f, <<"read_db">>, "none", FALSE, now.val)
       ELSE IF ~r.ok
       THEN Outcome(FALSE, 0, "not found", f, <<"read_db">>, "none", FALSE, now.val)
       ELSE Outcome(~w.panicked, r.val, IF w.panicked THEN "panic" ELSE "none",
                    w.file, <<"read_db", "write_db">>, outcome, w.panicked, r.db)

\* a call of a mutating method on the file store, rd being the Result of its
\* self.database.read_db(): the ? on rd, the method's edit,
\* self.database.write_db(&state)?
store_call(f, rd, op, arg, outcome) ==
    LET r == Dispatch(op, arg, rd.val)
        w == JSONFileDatabase_write_db(f, r.db, outcome)
    IN IF ~rd.ok
       THEN Outcome(FALSE, 0, rd.err, f, <<"read_db">>, "none", FALSE, rd.val)
       ELSE IF ~r.ok
       THEN Outcome(FALSE, 0, "not found", f, <<"read_db">>, "none", FALSE, rd.val)
       ELSE Outcome(~w.panicked, r.val, IF w.panicked THEN "panic" ELSE "none",
                    w.file, <<"read_db", "write_db">>, outcome, w.panicked, r.db)

\* the record of a call on the file store
FileCall(op, arg, r) ==
    [op |-> op, arg |-> arg, ok |-> r.ok, val |-> r.val, err |-> r.err,
     write |-> r.write]

\* a ProjectsDatabase over a JSONFileDatabase on one of the initial files
InitFile ==
    /\ file \in InitFiles
    /\ file0 = file
    /\ db = EmptyState
    /\ pre = EmptyState
    /\ ret = FileCall("new", <<>>,
                      Outcome(TRUE, 0, "none", file, <<>>, "none", FALSE, EmptyState))
    /\ issued = <<>>
    /\ proc = "running"
    /\ calls = <<>>
    /\ failed = FALSE
    /\ inst = NoCalls

\* the step of a call of op with arg: db keeps the State of the last write
\* that succeeded, pre the State the call read
FileStep(op, arg) ==
    /\ proc = "running"
    /\ \E rd \in {JSONFileDatabase_read_db(file)}, outcome \in WriteOutcomes :
         \E r \in {store_call(file, rd, op, arg, outcome)} :
            /\ file' = r.file
            /\ file0' = file
            /\ calls' = r.calls
            /\ proc' = IF r.panicked THEN "panicked" ELSE "running"
            /\ ret' = FileCall(op, arg, r)
            /\ db' = IF r.write = "ok" THEN r.written ELSE db
            /\ pre' = rd.val
            /\ failed' = IF r.write = "none" THEN failed ELSE r.panicked
    /\ UNCHANGED <<issued, inst>>

\* the counter the file holds is below the bound, or the file cannot be read
BelowFileBound ==
    LET rd == JSONFileDatabase_read_db(file)
    IN rd.ok => rd.val.last_item_id < MaxFileId

FileCreateEpic ==
    /\ BelowFileBound
    /\ \E epic \in Epic : FileStep("create_epic", [epic |-> epic])

FileCreateStory ==
    \E story \in Story, epic_id \in FileIds :
      /\ BelowFileBound \/ epic_id \notin DOMAIN JSONFileDatabase_read_db(file).val.epics
      /\ FileStep("create_story", [story |-> story, epic_id |-> epic_id])

FileDeleteEpic ==
    \E epic_id \in FileIds : FileStep("delete_epic", [epic_id |-> epic_id])

FileDeleteStory ==
    \E epic_id \in FileIds, story_id \in FileIds :
      FileStep("delete_story", [epic_id |-> epic_id, story_id |-> story_id])

FileUpdateEpicStatus ==
    \E epic_id \in FileIds, status \in Status :
      FileStep("update_epic_status", [epic_id |-> epic_id, status |-> status])

FileUpdateStoryStatus ==
    \E story_id \in FileIds, status \in Status :
      FileStep("update_story_status", [story_id |-> story_id, status |-> status])

\* ProjectsDatabase::read_db on the file store
FileRead ==
    /\ proc = "running"
    /\ \E rd \in {JSONFileDatabase_read_db(file)} :
         ret' = FileCall("read_db", <<>>,
                         Outcome(rd.ok, rd.val, rd.err, file, <<"read_db">>,
                                 "none", FALSE, rd.val))
    /\ calls' = <<"read_db">>
    /\ file0' = file
    /\ UNCHANGED <<db, pre, issued, file, proc, failed, inst>>

\* the program is started again after a panic: ProjectsDatabase::new on the
\* same file_path
Restart ==
    /\ proc = "panicked"
    /\ proc' = "running"
    /\ ret' = FileCall("new", <<>>,
                       Outcome(TRUE, 0, "none", file, <<>>, "none", FALSE, EmptyState))
    /\ calls' = <<>>
    /\ file0' = file
    /\ UNCHANGED <<db, pre, issued, file, failed, inst>>

NextFile ==
    \/ FileCreateEpic
    \/ FileCreateStory
    \/ FileDeleteEpic
    \/ FileDeleteStory
    \/ FileUpdateEpicStatus
    \/ FileUpdateStoryStatus
    \/ FileRead
    \/ Restart

SpecFile == InitFile /\ [][NextFile]_vars

(***************************** round trip **********************************)
(* write_db followed by read_db on each backend, for States drawn from    *)
(* the data model (db.rs:446-472).                                        *)

\* ids used in the written States: small ones, ones sharing digits, and the
\* ones around the halves of the u32 range
RtEpicKeys == {{}, {1}, {11}, {U32Max}, {1, 11}, {I32Max, U32Max}}
RtStoryKeys == {{}, {2}, {Half}, {2, 12}}
RtCounters == {0, 12, I32Max, U32Max}
RtStoryLists == {<<>>, <<2>>, <<U32Max, 11>>}

RtEpic == [name : Names, description : Descriptions, status : Status,
           stories : RtStoryLists]

RtStates ==
    { [last_item_id |-> c, epics |-> e, stories |-> s] :
        c \in RtCounters,
        e \in UNION {[K -> RtEpic] : K \in RtEpicKeys},
        s \in UNION {[K -> Story] : K \in RtStoryKeys} }

InitRoundTrip ==
    /\ pre \in RtStates
    /\ db = EmptyState
    /\ ret = [op |-> "new", arg |-> "none", ok |-> TRUE, val |-> 0]
    /\ issued = <<>>
    /\ file = NoFile
    /\ file0 = NoFile
    /\ proc = "running"
    /\ calls = <<>>
    /\ failed = FALSE
    /\ inst = NoCalls

\* db.write_db(&state) on a JSONFileDatabase
RtWriteFile ==
    /\ ret.op = "new"
    /\ \E outcome \in WriteOutcomes :
         LET w == JSONFileDatabase_write_db(file, pre, outcome)
         IN /\ file' = w.file
            /\ proc' = IF w.panicked THEN "panicked" ELSE "running"
    /\ file0' = file
    /\ ret' = [op |-> "write_db", arg |-> "file", ok |-> TRUE, val |-> 0]
    /\ failed' = (proc' = "panicked")
    /\ UNCHANGED <<db, pre, issued, calls, inst>>

\* db.read_db() on the JSONFileDatabase just written
RtReadFile ==
    /\ ret.op = "write_db"
    /\ ret.arg = "file"
    /\ proc = "running"
    /\ LET r == JSONFileDatabase_read_db(file)
       IN ret' = [op |-> "read_db", arg |-> "file", ok |-> r.ok, val |-> r.val]
    /\ UNCHANGED <<db, pre, issued, file, file0, proc, calls, failed, inst>>

\* db.write_db(&state) on a MockDb
RtWriteMock ==
    /\ ret.op = "new"
    /\ db' = write_db(db, pre)
    /\ ret' = [op |-> "write_db", arg |-> "mock", ok |-> TRUE, val |-> 0]
    /\ UNCHANGED <<pre, issued, file, file0, proc, calls, failed, inst>>

\* db.read_db() on the MockDb just written
RtReadMock ==
    /\ ret.op = "write_db"
    /\ ret.arg = "mock"
    /\ ret' = [op |-> "read_db", arg |-> "mock", ok |-> TRUE, val |-> read_db(db)]
    /\ UNCHANGED <<db, pre, issued, file, file0, proc, calls, failed, inst>>

NextRoundTrip ==
    \/ RtWriteFile
    \/ RtReadFile
    \/ RtWriteMock
    \/ RtReadMock

SpecRoundTrip == InitRoundTrip /\ [][NextRoundTrip]_vars

(***************************** counter range *******************************)
(* create_epic on stores whose counter lies anywhere in u32.  The crate   *)
(* sets no profile: state.last_item_id + 1 panics on overflow when the    *)
(* build has overflow-checks on (dev) and wraps when it has them off      *)
(* (release).                                                             *)

\* Creates are offered on the wide store only while fewer than MaxWideCreates
\* have returned.
MaxWideCreates == 2

\* counters at both ends and in the middle of the u32 range
WideCounters ==
    {0, 1, I32Max - 1, I32Max, u32_wrapping_inc(I32Max), U32Max - 1, U32Max}

\* the epics of a snapshot whose counter is c: none, epic 1, or an epic
\* under the counter
WideEpics(c) ==
    {<<>>} \cup
    { [k \in {key} |-> [name |-> "n1", description |-> "d1",
                       status |-> "Open", stories |-> <<>>]] :
        key \in {1, c} \ {0} }

WideStates ==
    UNION { { [last_item_id |-> c, epics |-> e, stories |-> <<>>] :
                e \in WideEpics(c) } :
            c \in WideCounters }

\* create_epic as built with or without overflow checks
create_epic_built(backend, epic, overflow_checks) ==
    IF overflow_checks /\ u32_inc_overflows(ProjectsDatabase_read_db(backend).last_item_id)
    THEN [ok |-> FALSE, val |-> 0, db |-> backend, panicked |-> TRUE]
    ELSE LET r == create_epic(backend, epic)
         IN [ok |-> r.ok, val |-> r.val, db |-> r.db, panicked |-> FALSE]

\* a ProjectsDatabase over a MockDb that holds one of the snapshots
InitWide ==
    /\ db \in WideStates
    /\ pre = db
    /\ ret = [op |-> "new", arg |-> <<>>, ok |-> TRUE, val |-> 0]
    /\ issued = <<>>
    /\ file = NoFile
    /\ file0 = NoFile
    /\ proc = "running"
    /\ calls = <<>>
    /\ failed = FALSE
    /\ inst = NoCalls

WideCreateEpic ==
    /\ proc = "running"
    /\ Len(issued) < MaxWideCreates
    /\ \E epic \in Epic, overflow_checks \in BOOLEAN :
         \E r \in {create_epic_built(db, epic, overflow_checks)} :
            /\ db' = r.db
            /\ pre' = db
            /\ ret' = Call("create_epic", [epic |-> epic], r)
            /\ issued' = IF r.ok THEN Append(issued, r.val) ELSE issued
            /\ proc' = IF r.panicked THEN "panicked" ELSE "running"
    /\ UNCHANGED <<file, file0, calls, failed, inst>>

NextWide == WideCreateEpic

SpecWide == InitWide /\ [][NextWide]_vars

(***************************** shared file *********************************)
(* Two ProjectsDatabase instances on one file_path.  Neither the store    *)
(* nor JSONFileDatabase locks the file: between the read_db and the       *)
(* write_db of a call of one instance the other instance can read and     *)
(* write.  read_db and write_db are taken as single steps.                *)

\* the statuses of the items the instances create
SharedStatus == {"Open", "InProgress"}

\* the calls the instances make: the two creates, of items without stories
SharedCalls ==
    {[op |-> "create_epic", arg |-> [epic |-> epic]] :
        epic \in {e \in Epic : e.stories = <<>> /\ e.status \in SharedStatus}}
    \cup
    {[op |-> "create_story", arg |-> [story |-> story, epic_id |-> epic_id]] :
        story \in {t \in Story : t.status \in SharedStatus}, epic_id \in FileIds}

\* the record of a call of instance p on the shared file
SharedCall(p, op, arg, r) ==
    [by |-> p, op |-> op, arg |-> arg, ok |-> r.ok, val |-> r.val,
     err |-> r.err, write |-> r.write]

\* instance p after its call has ended with r
Ended(call, rd, r) ==
    [pc |-> IF r.panicked THEN "panicked" ELSE "returned",
     op |-> call.op, arg |-> call.arg, rd |-> rd,
     ok |-> r.ok, val |-> r.val, write |-> r.write]

\* two ProjectsDatabase::new(file_path) on a file holding an empty DBState
InitShared ==
    /\ file = JsonFile(to_string(EmptyState))
    /\ file0 = file
    /\ db = EmptyState
    /\ pre = EmptyState
    /\ ret = SharedCall(0, "new", <<>>,
                        Outcome(TRUE, 0, "none", file, <<>>, "none", FALSE, EmptyState))
    /\ issued = <<>>
    /\ proc = "running"
    /\ calls = <<>>
    /\ failed = FALSE
    /\ inst = NoCalls

\* instance p begins a call: let mut state = self.read_db()?
SharedRead(p) ==
    /\ inst[p].pc \in {"idle", "returned"}
    /\ \E rd \in {JSONFileDatabase_read_db(file)}, call \in SharedCalls :
         /\ rd.ok => rd.val.last_item_id < MaxFileId
         /\ IF rd.ok
            THEN /\ inst' = [inst EXCEPT ![p] = [pc |-> "read", op |-> call.op,
                                                 arg |-> call.arg, rd |-> rd]]
                 /\ UNCHANGED <<ret, calls>>
            ELSE \E r \in {store_call(file, rd, call.op, call.arg, "ok")} :
                   /\ inst' = [inst EXCEPT ![p] = Ended(call, rd, r)]
                   /\ ret' = SharedCall(p, call.op, call.arg, r)
                   /\ calls' = r.calls
    /\ UNCHANGED <<db, pre, issued, file, file0, proc, failed>>

\* instance p ends its call: the edit of the State it read and
\* self.database.write_db(&state)?
SharedWrite(p) ==
    /\ inst[p].pc = "read"
    /\ \E outcome \in WriteOutcomes :
         \E r \in {store_call(file, inst[p].rd, inst[p].op, inst[p].arg, outcome)} :
            /\ file' = r.file
            /\ file0' = file
            /\ calls' = r.calls
            /\ ret' = SharedCall(p, inst[p].op, inst[p].arg, r)
            /\ inst' = [inst EXCEPT ![p] = Ended(inst[p], inst[p].rd, r)]
            /\ db' = IF r.write = "ok" THEN r.written ELSE db
            /\ pre' = inst[p].rd.val
            /\ failed' = IF r.write = "none" THEN failed ELSE r.panicked
    /\ UNCHANGED <<issued, proc>>

NextShared ==
    \E p \in Instances :
      \/ SharedRead(p)
      \/ SharedWrite(p)

SpecShared == InitShared /\ [][NextShared]_vars

(***************************** claims **************************************)

\* the elements of a vector
Range(s) == {s[i] : i \in 1..Len(s)}

\* the keys of both maps
Keys(state) == (DOMAIN state.epics) \cup (DOMAIN state.stories)

Created == ret.ok /\ ret.op \in {"create_epic", "create_story"}
Deleted == ret.ok /\ ret.op \in {"delete_epic", "delete_story"}

\* C1 (fails on the code): in every persisted state every story id listed in
\* an epic's stories vector is a key of the story map.  create_epic stores the
\* caller's stories vector as supplied (see C7), so a listed id may name no story.
C1_ReferentialIntegrity ==
    \A e \in DOMAIN db.epics :
      \A i \in 1..Len(db.epics[e].stories) :
        db.epics[e].stories[i] \in DOMAIN db.stories

\* C2 (fails on the code): in every persisted state no story id is listed by
\* two epics, and none is listed twice by one epic.  create_epic stores the
\* caller's stories vector as supplied (see C7), so an id can be listed again.
C2_SingleOwnership ==
    /\ \A e \in DOMAIN db.epics :
         \A i, j \in 1..Len(db.epics[e].stories) :
           i # j => db.epics[e].stories[i] # db.epics[e].stories[j]
    /\ \A e1, e2 \in DOMAIN db.epics :
         e1 # e2 =>
           Range(db.epics[e1].stories) \cap Range(db.epics[e2].stories) = {}

\* C3: the ids returned by the successful creates are strictly increasing in
\* call order, whatever deletes happen in between: no id is returned twice.
C3_MonotonicUniqueIds ==
    \A i, j \in 1..Len(issued) : i < j => issued[i] < issued[j]

\* C3 happens: a create has just returned an id after an id issued earlier was
\* freed by a delete.
C3_Witness ==
    /\ Created
    /\ Len(issued) >= 2
    /\ ret.val = issued[Len(issued)]
    /\ \E i \in 1..(Len(issued) - 1) : issued[i] \notin Keys(db)

\* C4: last_item_id is at least every key of both maps, and no call lowers it.
C4_CounterInvariant ==
    /\ \A k \in Keys(db) : k <= db.last_item_id
    /\ db.last_item_id >= pre.last_item_id

\* C4 happens: a delete has removed the entity with the highest id, and the
\* counter stays above every key that is left.
C4_Witness ==
    /\ Deleted
    /\ pre.last_item_id \in Keys(pre)
    /\ db.last_item_id \notin Keys(db)
    /\ Keys(db) # {}

\* C5: no id is a key of the epic map and of the story map.
C5_SharedNamespace == (DOMAIN db.epics) \cap (DOMAIN db.stories) = {}

\* C5 happens: a create_story has just returned while both maps hold entities.
C5_Witness ==
    /\ ret.op = "create_story" /\ ret.ok
    /\ DOMAIN db.epics # {}
    /\ ret.val \in DOMAIN db.stories

\* C6: a call that fails (epic or story not found) leaves the backend's
\* snapshot as it was: no counter advance, no insert.
C6_NotFoundKeepsState == ~ret.ok => db = pre

\* C6 happens: create_story has failed on a missing epic of a store that
\* already holds entities.
C6_Witness ==
    /\ ret.op = "create_story" /\ ~ret.ok
    /\ ret.arg.epic_id \notin DOMAIN pre.epics
    /\ pre.last_item_id > 0
    /\ Keys(pre) # {}

\* C7 (fails on the code): after a successful create_epic returning n the
\* epic stored under n has the supplied name, description and status and an
\* empty stories vector, n is the previous last_item_id + 1, and the stored
\* last_item_id is n.
C7_CreateEpicEmptyStories ==
    (ret.op = "create_epic" /\ ret.ok) =>
      /\ ret.val = pre.last_item_id + 1
      /\ db.last_item_id = ret.val
      /\ ret.val \in DOMAIN db.epics
      /\ db.epics[ret.val] =
           [name |-> ret.arg.epic.name,
            description |-> ret.arg.epic.description,
            status |-> ret.arg.epic.status,
            stories |-> <<>>]

\* C8: after a successful delete_epic(e): e is gone, every story id e listed
\* is gone from the story map, and every other epic, every story e did not
\* list and last_item_id are as before.
C8_CascadeDelete ==
    (ret.op = "delete_epic" /\ ret.ok) =>
      LET e == ret.arg.epic_id
          listed == Range(pre.epics[e].stories)
      IN /\ e \notin DOMAIN db.epics
         /\ listed \cap (DOMAIN db.stories) = {}
         /\ DOMAIN db.epics = (DOMAIN pre.epics) \ {e}
         /\ \A o \in DOMAIN db.epics : db.epics[o] = pre.epics[o]
         /\ DOMAIN db.stories = (DOMAIN pre.stories) \ listed
         /\ \A t \in DOMAIN db.stories : db.stories[t] = pre.stories[t]
         /\ db.last_item_id = pre.last_item_id

\* C8 happens: the deleted epic listed a story of the map, and another epic
\* stays.
C8_Witness ==
    /\ ret.op = "delete_epic" /\ ret.ok
    /\ Range(pre.epics[ret.arg.epic_id].stories) \cap (DOMAIN pre.stories) # {}
    /\ DOMAIN db.epics # {}

\* C9: delete_story(e, t) on an existing epic e fails whenever t is not in
\* e's stories vector, also when t is a story another epic lists; after the
\* failure the story map and every epic's vector are as before.
C9_DeleteStoryChecksOwnership ==
    (/\ ret.op = "delete_story"
     /\ ret.arg.epic_id \in DOMAIN pre.epics
     /\ ret.arg.story_id \notin Range(pre.epics[ret.arg.epic_id].stories)) =>
      /\ ~ret.ok
      /\ db.stories = pre.stories
      /\ db.epics = pre.epics

\* C9 happens: delete_story named an epic that does not list the story, and
\* the story is in the map and listed by another epic.
C9_Witness ==
    /\ ret.op = "delete_story" /\ ~ret.ok
    /\ ret.arg.epic_id \in DOMAIN pre.epics
    /\ ret.arg.story_id \in DOMAIN db.stories
    /\ \E o \in DOMAIN db.epics :
         /\ o # ret.arg.epic_id
         /\ ret.arg.story_id \in Range(db.epics[o].stories)

\* C10: after a successful create_story(story, e) returning n: n is the
\* previous last_item_id + 1, the story map holds the supplied story under n,
\* e's stories vector is the earlier vector with n appended, and every other
\* epic and every other story is as before.
C10_CreateStoryAppends ==
    (ret.op = "create_story" /\ ret.ok) =>
      LET e == ret.arg.epic_id
          n == ret.val
      IN /\ n = pre.last_item_id + 1
         /\ n \in DOMAIN db.stories
         /\ db.stories[n] = ret.arg.story
         /\ e \in DOMAIN db.epics
         /\ db.epics[e].stories = Append(pre.epics[e].stories, n)
         /\ DOMAIN db.epics = DOMAIN pre.epics
         /\ \A o \in (DOMAIN db.epics) \ {e} : db.epics[o] = pre.epics[o]
         /\ DOMAIN db.stories = (DOMAIN pre.stories) \cup {n}
         /\ \A t \in (DOMAIN db.stories) \ {n} : db.stories[t] = pre.stories[t]

\* C10 happens: the story was appended to a vector that already held an id,
\* while another epic exists.
C10_Witness ==
    /\ ret.op = "create_story" /\ ret.ok
    /\ Len(pre.epics[ret.arg.epic_id].stories) >= 1
    /\ \E o \in DOMAIN db.epics : o # ret.arg.epic_id

\* C11: a successful update_epic_status(e, s) sets e's status to s and leaves
\* e's name, description and stories vector, every other epic, every story
\* and last_item_id as they were; a successful update_story_status(t, s) sets
\* t's status to s and leaves every epic, every other story and last_item_id
\* as they were.
C11_StatusUpdateFrame ==
    /\ (ret.op = "update_epic_status" /\ ret.ok) =>
         LET e == ret.arg.epic_id
         IN /\ DOMAIN db.epics = DOMAIN pre.epics
            /\ db.epics[e].status = ret.arg.status
            /\ db.epics[e].name = pre.epics[e].name
            /\ db.epics[e].description = pre.epics[e].description
            /\ db.epics[e].stories = pre.epics[e].stories
            /\ \A o \in (DOMAIN db.epics) \ {e} : db.epics[o] = pre.epics[o]
            /\ db.stories = pre.stories
            /\ db.last_item_id = pre.last_item_id
    /\ (ret.op = "update_story_status" /\ ret.ok) =>
         LET t == ret.arg.story_id
         IN /\ DOMAIN db.stories = DOMAIN pre.stories
            /\ db.stories[t].status = ret.arg.status
            /\ db.stories[t].name = pre.stories[t].name
            /\ db.stories[t].description = pre.stories[t].description
            /\ \A o \in (DOMAIN db.stories) \ {t} : db.stories[o] = pre.stories[o]
            /\ db.epics = pre.epics
            /\ db.last_item_id = pre.last_item_id

\* C11 happens: an epic went from Closed back to Open while a story it lists
\* keeps the status Resolved.
C11_Witness ==
    /\ ret.op = "update_epic_status" /\ ret.ok
    /\ pre.epics[ret.arg.epic_id].status = "Closed"
    /\ ret.arg.status = "Open"
    /\ \E t \in Range(db.epics[ret.arg.epic_id].stories) \cap (DOMAIN db.stories) :
         db.stories[t].status = "Resolved"

\* C16 (fails on the code): after a successful delete_story(e, t), t is
\* neither in the story map nor in e's stories vector, the ids left in the
\* vector keep their order, and every other epic, every other story and
\* last_item_id are as before.  With a vector that lists t twice (see C7)
\* only the first entry is removed.
C16_DeleteStoryRemoves ==
    (ret.op = "delete_story" /\ ret.ok) =>
      LET e == ret.arg.epic_id
          t == ret.arg.story_id
      IN /\ t \notin DOMAIN db.stories
         /\ t \notin Range(db.epics[e].stories)
         /\ db.epics[e].stories = SelectSeq(pre.epics[e].stories, LAMBDA x : x # t)
         /\ DOMAIN db.epics = DOMAIN pre.epics
         /\ \A o \in (DOMAIN db.epics) \ {e} : db.epics[o] = pre.epics[o]
         /\ DOMAIN db.stories = (DOMAIN pre.stories) \ {t}
         /\ \A o \in DOMAIN db.stories : db.stories[o] = pre.stories[o]
         /\ db.last_item_id = pre.last_item_id

\* C17 (fails on the code): in every persisted state every key of the story
\* map is listed by exactly one existing epic.  An epic created with a
\* stories vector of the caller's (see C7) can list a story another epic owns.
C17_NoOrphanStories ==
    \A t \in DOMAIN db.stories :
      Cardinality({e \in DOMAIN db.epics : t \in Range(db.epics[e].stories)}) = 1

\* C14: read_db leaves the backend as it was and returns the snapshot the
\* last write stored, so two reads with no other call between them return
\* equal snapshots.
C14_IdempotentRead ==
    [][ret'.op = "read_db" =>
         /\ ret'.ok
         /\ db' = db
         /\ ret'.val = db
         /\ (ret.op = "read_db" => ret'.val = ret.val)]_vars

\* C14 happens: a read has returned a snapshot that holds entities.
C14_Witness ==
    /\ ret.op = "read_db" /\ ret.ok
    /\ ret.val.last_item_id > 0
    /\ Keys(ret.val) # {}

\* C13: on either backend, reading after a write that succeeded returns a
\* State equal to the one written: same last_item_id, same epics and stories
\* under the same ids with the same fields, same order of each stories list.
C13_RoundTrip ==
    ret.op = "read_db" => ret.ok /\ ret.val = pre

\* a State with two epics, one under u32::MAX, a two-element stories list
\* and a story came back from the file
C13_Witness ==
    /\ ret.op = "read_db"
    /\ ret.arg = "file"
    /\ ret.ok
    /\ ret.val = pre
    /\ DOMAIN pre.epics = {I32Max, U32Max}
    /\ Len(pre.epics[U32Max].stories) = 2
    /\ pre.stories # <<>>

\* the methods of ProjectsDatabase that write
MutatingOps ==
    {"create_epic", "create_story", "delete_epic", "delete_story",
     "update_epic_status", "update_story_status"}

\* C12: when the write of the state to the file fails, the call that made it
\* returns an IOError to its caller and the process keeps running.
C12_WriteFailureReturned ==
    ret.write \in {"not opened", "cut off"} =>
        /\ proc = "running"
        /\ ~ret.ok
        /\ ret.err = "io"

\* C15: a mutating call that succeeds has invoked read_db once and then
\* write_db once; one that fails with NotFound has invoked read_db once and
\* has not written; what a call returns and writes is determined by the
\* State its read returned, the store keeping nothing between calls.
C15_ReadThenWrite ==
    ret.op \in MutatingOps =>
        /\ ret.ok =>
             /\ calls = <<"read_db", "write_db">>
             /\ ret.val = Dispatch(ret.op, ret.arg, pre).val
             /\ file = JsonFile(to_string(Dispatch(ret.op, ret.arg, pre).db))
        /\ ret.err = "not found" =>
             /\ calls = <<"read_db">>
             /\ file = file0

\* C15 happens: a call has failed with NotFound on a file that an earlier
\* call, which succeeded, wrote an epic to
C15_Witness ==
    /\ ret.op = "delete_story"
    /\ ret.err = "not found"
    /\ calls = <<"read_db">>
    /\ db.epics # <<>>
    /\ file = JsonFile(to_string(db))

\* C18: when read_db fails (the file cannot be opened, or its text does not
\* decode into a DBState), read_db and every mutating call return that
\* failure, invoke no write_db and leave the file as it was.
C18_ReadFailureStops ==
    (ret.op # "new" /\ ~JSONFileDatabase_read_db(file0).ok) =>
        /\ ~ret.ok
        /\ ret.err = JSONFileDatabase_read_db(file0).err
        /\ calls = <<"read_db">>
        /\ file = file0

\* C18 happens: create_epic has failed on a file whose text does not decode
C18_Witness ==
    /\ ret.op = "create_epic"
    /\ ~ret.ok
    /\ ret.err = "format"
    /\ file0 = BrokenFile
    /\ file = BrokenFile
    /\ calls = <<"read_db">>

\* C19: once the write step of a mutating call has failed, a later read_db
\* returns the snapshot of the last write that succeeded: not the edited
\* State, not partial contents, not a failure.
C19_NoPartialCommit ==
    (ret.op = "read_db" /\ failed) => ret.ok /\ ret.val = db

\* C20: on a backend that can be read and written, whatever last_item_id in
\* the u32 range the snapshot holds, create_epic returns Ok with an id
\* strictly greater than that last_item_id, and the process keeps running.
C20_CreateEpicNeverFails ==
    ret.op = "create_epic" =>
        /\ proc = "running"
        /\ ret.ok
        /\ u32_lt(pre.last_item_id, ret.val)

\* C21: with two instances on one file and no lock, the write of a call
\* replaces the file by the edit of the State that call read, whatever the
\* other instance has written since, and two creates that read the same State
\* return the same id: the update written in between is lost.
C21_LostUpdate ==
    /\ \A p \in Instances :
         (inst[p].pc = "returned" /\ inst[p].write = "ok" /\ ret.by = p) =>
             /\ inst[p].val = u32_wrapping_inc(inst[p].rd.val.last_item_id)
             /\ file = JsonFile(to_string(
                          Dispatch(inst[p].op, inst[p].arg, inst[p].rd.val).db))
    /\ \A p \in Instances, q \in Instances :
         (/\ inst[p].pc = "returned" /\ inst[p].write = "ok"
          /\ inst[q].pc = "returned" /\ inst[q].write = "ok"
          /\ inst[p].rd = inst[q].rd) =>
             inst[p].val = inst[q].val

\* C21 happens: both instances have created an epic, the two epics differ,
\* both calls returned Ok(1), and the file holds the epic of instance 2 only
C21_Witness ==
    /\ \A p \in Instances :
         /\ inst[p].pc = "returned"
         /\ inst[p].op = "create_epic"
         /\ inst[p].ok
         /\ inst[p].val = 1
    /\ inst[1].arg.epic # inst[2].arg.epic
    /\ file = JsonFile(to_string(db))
    /\ db.last_item_id = 1
    /\ DOMAIN db.epics = {1}
    /\ db.epics[1] = inst[2].arg.epic

====
